---------------------------- MODULE Spec2Model ----------------------------
(***************************************************************************)
(* Lending-record tracker of the repository, in its two variants:          *)
(*   src/Web.py : single-copy library (is_borrowed / borrower_id /         *)
(*                due_date) with a history ledger, tkinter front end;      *)
(*   src/app.py : copy-counted library (total_copies / available_copies),  *)
(*                gradio front end, a threading.Lock around borrow/return. *)
(* A behaviour runs ONE of the two programs; prog says which.  Python str  *)
(* values are sequences of one-character strings, so that lower() and      *)
(* strip() are computed; None / a present value are {} / {v}.              *)
(***************************************************************************)
EXTENDS Integers, Sequences, FiniteSets, TLC

VARIABLES
    prog,      \* "Web" or "app": which program this behaviour runs
    books,     \* Library.books   (Web: dict id -> Book in insertion order; app: list)
    members,   \* Library.members (dict id -> Member, in insertion order)
    history,   \* Web.py Library.history (app.py has none: stays <<>>)
    disk,      \* the store: Web.py DATA_FILE, {} while missing, {content} once
               \* written; app.py its four files, each {} or {content}
    faults,    \* failed writes and damages the store has had so far
    now,       \* the wall clock datetime.now(), in seconds
    last,      \* the last call of the operation surface and what it returned
    lock,      \* app.py Library.lock: {} when free, {t} when held by thread t
    pc,        \* app.py worker threads: position of each inside its handler
    loc        \* app.py worker threads: locals of the running handler

vars == <<prog, books, members, history, disk, faults, now, last, lock, pc, loc>>

---------------------------------------------------------------------------
(* Bounds of the model *)

\* longest catalog list app.py's add_book may build
MaxBooks == 2
\* longest history ledger Web.py's borrow/return may build
MaxHist == 2
\* number of clock advances
MaxTicks == 1
\* calls each worker thread may make in the threaded specification
MaxCalls == 2
\* longest history ledger in the runs from a loaded catalog
MaxLoans == 3
\* failed writes and damages of the store in one run
MaxFaults == 2
\* longest catalog list of app.py in the runs with a failing store
MaxStoreBooks == 1

(* Program constants *)

\* timedelta(days=7)
DueDays == 7
\* fine = late_days * 10
FineRate == 10

SecPerMin == 60
SecPerDay == 24 * 60 * SecPerMin

---------------------------------------------------------------------------
(* Python values *)

None == {}
Some(v) == {v}
TheValue(o) == CHOOSE v \in o : TRUE

UpperCase == <<"A","B","C","D","E","F","G","H","I","J","K","L","M",
               "N","O","P","Q","R","S","T","U","V","W","X","Y","Z">>
LowerCase == <<"a","b","c","d","e","f","g","h","i","j","k","l","m",
               "n","o","p","q","r","s","t","u","v","w","x","y","z">>
Whitespace == {" ", "\t", "\n"}

\* the lower-case letter of every upper-case letter
ToLower ==
    [c \in {UpperCase[i] : i \in 1..Len(UpperCase)} |->
        LowerCase[CHOOSE i \in 1..Len(UpperCase) : UpperCase[i] = c]]

LowerChar(c) == IF c \in DOMAIN ToLower THEN ToLower[c] ELSE c

\* str.lower()
Lower(s) == [i \in 1..Len(s) |-> LowerChar(s[i])]

RECURSIVE LStrip(_)
LStrip(s) == IF s # <<>> /\ Head(s) \in Whitespace THEN LStrip(Tail(s)) ELSE s

RECURSIVE RStrip(_)
RStrip(s) ==
    IF s # <<>> /\ s[Len(s)] \in Whitespace
    THEN RStrip(SubSeq(s, 1, Len(s) - 1)) ELSE s

\* str.strip()
Strip(s) == RStrip(LStrip(s))

\* x in list
InList(x, list) == \E i \in 1..Len(list) : list[i] = x

\* list.remove(x): drops the first occurrence
ListRemove(list, x) ==
    LET i == CHOOSE k \in 1..Len(list) :
                 list[k] = x /\ \A j \in 1..(k - 1) : list[j] # x
    IN  SubSeq(list, 1, i - 1) \o SubSeq(list, i + 1, Len(list))

\* position of the first entry whose field f equals v; 0 when there is none
FirstWith(seq, f, v) ==
    IF \E i \in 1..Len(seq) : seq[i][f] = v
    THEN CHOOSE i \in 1..Len(seq) :
             seq[i][f] = v /\ \A j \in 1..(i - 1) : seq[j][f] # v
    ELSE 0

\* a scan that keeps the last match
FirstWithLower_LastMatch(seq, f, v) ==
    LET matches == {i \in 1..Len(seq) : Lower(seq[i][f]) = v}
    IN  IF matches = {} THEN 0
        ELSE CHOOSE i \in matches : \A j \in matches : j <= i

\* position of the first entry whose lower-cased field f equals v; 0 when none
FirstWithLower(seq, f, v) ==
    LET matches == {i \in 1..Len(seq) : Lower(seq[i][f]) = v}
    IN  IF matches = {} THEN 0
        ELSE CHOOSE i \in matches : \A j \in matches : i <= j

\* dict[key] = value on an insertion-ordered dict kept as a sequence
DictSet(seq, f, key, value) ==
    IF FirstWith(seq, f, key) = 0
    THEN Append(seq, value)
    ELSE [seq EXCEPT ![FirstWith(seq, f, key)] = value]

\* datetime.strftime(DATE_FMT): "%Y-%m-%d %H:%M" keeps whole minutes
Strftime(t) == t \div SecPerMin
\* datetime.strptime(s, DATE_FMT)
Strptime(s) == s * SecPerMin
\* a date string is kept as the minute it names; a string that DATE_FMT does
\* not parse, on which strptime raises ValueError, is kept as a negative number
StrptimeRaises(s) == s < 0

Min(a, b) == IF a <= b THEN a ELSE b

---------------------------------------------------------------------------
(* Inputs *)

WebBookIds == {<<"1">>, <<"2">>}
WebMemberIds == {<<"7">>, <<"8">>}
WebTitles == {<<"D">>, <<"d", " ">>}
WebNames == {<<" ", "A">>}
Authors == {<<"H">>}
WebBookKeys == WebBookIds \cup {<<" ", "D">>}
WebMemberKeys == WebMemberIds \cup {<<"a", " ">>}
\* the calls the front end makes: by ids (ui_borrow_by_ids, ui_return_by_ids) or
\* by name and title (ui_borrow_by_names, ui_return_by_names)
WebCalls ==
    {[member_key |-> m, book_key |-> b, by |-> FALSE] :
        m \in WebMemberIds, b \in WebBookIds}
    \cup {[member_key |-> m, book_key |-> b, by |-> TRUE] :
        m \in WebMemberKeys \ WebMemberIds, b \in WebBookKeys \ WebBookIds}

\* the books the Add Book form is given: ids 1 and 2, titles that differ by
\* case only and one that differs, two copies or a negative count
AppBookInputs ==
    {[book_id |-> 1, title |-> <<"D">>, copies |-> 2],
     [book_id |-> 1, title |-> <<"d">>, copies |-> 2],
     [book_id |-> 2, title |-> <<"d">>, copies |-> 2],
     [book_id |-> 1, title |-> <<"e">>, copies |-> 2],
     [book_id |-> 1, title |-> <<"e">>, copies |-> 0 - 1]}
AppMemberIds == {7, 8}
AppNames == {<<"A">>}
AppTitleKeys == {<<"d">>, <<"E">>}

---------------------------------------------------------------------------
(* src/Web.py *)

\* a constructor that starts a book with a due date
WebBook_DueSet(book_id, title, author) ==
    [book_id |-> book_id, title |-> title, author |-> author,
     is_borrowed |-> FALSE, borrower_id |-> None, due_date |-> Some(0)]

\* Book(book_id, title, author): is_borrowed=False, borrower_id=None, due_date=None
WebBook(book_id, title, author) ==
    [book_id |-> book_id, title |-> title, author |-> author,
     is_borrowed |-> FALSE, borrower_id |-> None, due_date |-> None]

\* Member(member_id, name): borrowed_book_ids = []
WebMember(member_id, name) ==
    [member_id |-> member_id, name |-> name, borrowed_book_ids |-> <<>>]

\* Library._now()
Now(t) == Strftime(t)

\* Library._find_book_by_title_ci: position in books, 0 for None
find_book_by_title_ci(bks, title) == FirstWithLower(bks, "title", Lower(Strip(title)))

\* Library._find_member_by_name_ci: position in members, 0 for None
find_member_by_name_ci(mbs, name) == FirstWithLower(mbs, "name", Lower(Strip(name)))

\* the member a borrow/return call addresses
WebResolveMember(L, member_key, by_name) ==
    IF by_name THEN find_member_by_name_ci(L.members, member_key)
    ELSE FirstWith(L.members, "member_id", member_key)

\* the book a borrow/return call addresses
WebResolveBook(L, book_key, by_title) ==
    IF by_title THEN find_book_by_title_ci(L.books, book_key)
    ELSE FirstWith(L.books, "book_id", book_key)

\* Library.save_data: the content json.dump writes to DATA_FILE
WebSaveData(L) ==
    Some([books |-> L.books, members |-> L.members, history |-> L.history])

\* a library with nothing in it
EmptyLib == [books |-> <<>>, members |-> <<>>, history |-> <<>>]

\* file contents that are no store: text that json.load rejects, and a JSON
\* array where the store keeps an object
NotJson == [text |-> "not JSON"]
JsonArray == [array |-> <<>>]
\* a JSON array as file content
JsonList(list) == [array |-> list]
JsonLoadRaises(data) == "text" \in DOMAIN data
IsDict(data) == "array" \notin DOMAIN data

\* data.get(key, default)
DictGet(data, key, default) == IF key \in DOMAIN data THEN data[key] ELSE default

\* Book(**bdict) binds: the keys are parameters of Book.__init__ and the three
\* without a default are there
WebBookKwargsOk(d) ==
    /\ DOMAIN d \subseteq {"book_id", "title", "author", "is_borrowed",
                           "borrower_id", "due_date"}
    /\ {"book_id", "title", "author"} \subseteq DOMAIN d

\* Book(**bdict)
WebBookFromDict(d) ==
    [book_id |-> d.book_id, title |-> d.title, author |-> d.author,
     is_borrowed |-> DictGet(d, "is_borrowed", FALSE),
     borrower_id |-> DictGet(d, "borrower_id", None),
     due_date |-> DictGet(d, "due_date", None)]

\* Member(**mdict) binds
WebMemberKwargsOk(d) ==
    /\ DOMAIN d \subseteq {"member_id", "name", "borrowed_book_ids"}
    /\ {"member_id", "name"} \subseteq DOMAIN d

\* Member(**mdict): borrowed_book_ids or []
WebMemberFromDict(d) ==
    [member_id |-> d.member_id, name |-> d.name,
     borrowed_book_ids |-> DictGet(d, "borrowed_book_ids", <<>>)]

\* Library.load_data on the content of DATA_FILE (None: no such file): the
\* library it leaves, and the exception that leaves it ("none": it returns)
WebLoadData(file) ==
    LET data == TheValue(file)
        bks == DictGet(data, "books", <<>>)
        mbs == DictGet(data, "members", <<>>)
    IN
    IF file = None THEN [L |-> EmptyLib, raised |-> "none"]
    ELSE IF JsonLoadRaises(data) THEN [L |-> EmptyLib, raised |-> "none"]
    ELSE IF ~IsDict(data) THEN [L |-> EmptyLib, raised |-> "none"]
    ELSE IF \/ \E i \in 1..Len(bks) : ~WebBookKwargsOk(bks[i])
            \/ \E i \in 1..Len(mbs) : ~WebMemberKwargsOk(mbs[i])
    THEN [L |-> EmptyLib, raised |-> "none"]
    ELSE [L |-> [books |-> [i \in 1..Len(bks) |-> WebBookFromDict(bks[i])],
                 members |-> [i \in 1..Len(mbs) |-> WebMemberFromDict(mbs[i])],
                 history |-> DictGet(data, "history", <<>>)],
          raised |-> "none"]

Ret(L, ok, msg, saved) == [L |-> L, ok |-> ok, msg |-> msg, saved |-> saved]

\* Library.add_book
Web_add_book(L, book_id, title, author) ==
    IF FirstWith(L.books, "book_id", book_id) # 0
    THEN Ret(L, FALSE, "Book ID already exists.", FALSE)
    ELSE Ret([L EXCEPT !.books =
                  Append(@, WebBook(book_id, Strip(title), Strip(author)))],
             TRUE, "Book added.", TRUE)

\* Library.add_member
Web_add_member(L, member_id, name) ==
    IF FirstWith(L.members, "member_id", member_id) # 0
    THEN Ret(L, FALSE, "Member ID already exists.", FALSE)
    ELSE Ret([L EXCEPT !.members = Append(@, WebMember(member_id, Strip(name)))],
             TRUE, "Member added.", TRUE)

\* a borrow or return that forgets its ledger entry
HistoryAppend_Dropped(hist, entry) == hist

\* a ledger that takes new entries at the front
HistoryAppend_AtFront(hist, entry) == <<entry>> \o hist

\* self.history.append(entry)
HistoryAppend(hist, entry) == Append(hist, entry)

\* a borrow that never refuses
WebBorrowRefused_Never(b) == FALSE

\* the guard of Library.borrow_book on the resolved book
WebBorrowRefused(b) == b.is_borrowed

\* Library.borrow_book at clock t
Web_borrow_book(L, t, member_key, book_key, by_title, by_name) ==
    LET mi == WebResolveMember(L, member_key, by_name)
        bi == WebResolveBook(L, book_key, by_title)
    IN
    IF mi = 0 THEN Ret(L, FALSE, "Member not found.", FALSE)
    ELSE IF bi = 0 THEN Ret(L, FALSE, "Book not found.", FALSE)
    ELSE IF WebBorrowRefused(L.books[bi])
    THEN Ret(L, FALSE, "Book already borrowed.", FALSE)
    ELSE
      LET m == L.members[mi]
          b == L.books[bi]
          due == Strftime(t + DueDays * SecPerDay)
      IN Ret([books |-> [L.books EXCEPT ![bi] =
                            [b EXCEPT !.is_borrowed = TRUE,
                                      !.borrower_id = Some(m.member_id),
                                      !.due_date = Some(due)]],
              members |-> [L.members EXCEPT ![mi].borrowed_book_ids =
                              Append(@, b.book_id)],
              history |-> HistoryAppend(L.history,
                              [timestamp |-> Now(t), action |-> "borrow",
                               book_id |-> b.book_id, member_id |-> m.member_id,
                               due_date |-> due])],
             TRUE, "borrowed", TRUE)

\* a return guard that forgets to compare the borrower
WebReturnRefused_AnyBorrower(b, m) == ~b.is_borrowed

\* the guard of Library.return_book on the resolved book and member
WebReturnRefused(b, m) == ~b.is_borrowed \/ b.borrower_id # Some(m.member_id)

\* a fine that charges every started day
WebFine_PerStartedDay(due_date, t) ==
    IF due_date = None \/ StrptimeRaises(TheValue(due_date)) THEN 0
    ELSE LET late == t - Strptime(TheValue(due_date))
         IN  IF late > 0 THEN ((late + SecPerDay - 1) \div SecPerDay) * FineRate
             ELSE 0

\* the fine calculation of Library.return_book: nothing without a due date
\* (`if b.due_date`), nothing when strptime raises (`except Exception`)
WebFine(due_date, t) ==
    IF due_date = None THEN 0
    ELSE IF StrptimeRaises(TheValue(due_date)) THEN 0
    ELSE LET late_days == (t - Strptime(TheValue(due_date))) \div SecPerDay
         IN  IF late_days > 0 THEN late_days * FineRate ELSE 0

\* Library.return_book at clock t
Web_return_book(L, t, member_key, book_key, by_title, by_name) ==
    LET mi == WebResolveMember(L, member_key, by_name)
        bi == WebResolveBook(L, book_key, by_title)
    IN
    IF mi = 0 THEN Ret(L, FALSE, "Member not found.", FALSE)
    ELSE IF bi = 0 THEN Ret(L, FALSE, "Book not found.", FALSE)
    ELSE IF WebReturnRefused(L.books[bi], L.members[mi])
    THEN Ret(L, FALSE, "This member does not hold that book.", FALSE)
    ELSE
      LET m == L.members[mi]
          b == L.books[bi]
          fine == WebFine(b.due_date, t)
      IN Ret([books |-> [L.books EXCEPT ![bi] =
                            [b EXCEPT !.is_borrowed = FALSE,
                                      !.borrower_id = None,
                                      !.due_date = None]],
              members |-> [L.members EXCEPT ![mi].borrowed_book_ids =
                              IF InList(b.book_id, @)
                              THEN ListRemove(@, b.book_id) ELSE @],
              history |-> HistoryAppend(L.history,
                              [timestamp |-> Now(t), action |-> "return",
                               book_id |-> b.book_id, member_id |-> m.member_id,
                               fine |-> fine])],
             TRUE, "Returned", TRUE)

\* LibraryApp.ui_show_history: the lines shown, newest first (history[::-1])
ui_show_history(hist) == [i \in 1..Len(hist) |-> hist[Len(hist) + 1 - i]]

\* the library as one value
Lib == [books |-> books, members |-> members, history |-> history]

\* positions in books and in members
BookIdx == 1..Len(books)
MemberIdx == 1..Len(members)

\* the load of the last start raised: the program did not come up
LoadRaised == last.msg \in {"JSONDecodeError", "KeyError"}

\* the program is up: its last start loaded the store and it has not exited
Running == ~LoadRaised /\ last.msg # "exited"

\* what a call leaves behind: the mutated library, the store when it saved
WebCommit(r) ==
    /\ books' = r.L.books
    /\ members' = r.L.members
    /\ history' = r.L.history
    /\ disk' = IF r.saved THEN WebSaveData(r.L) ELSE disk
    /\ last' = [ok |-> r.ok, msg |-> r.msg]

WebAddBook ==
    /\ prog = "Web"
    /\ Running
    /\ \E book_id \in WebBookIds, title \in WebTitles, author \in Authors :
         LET r == Web_add_book(Lib, book_id, title, author) IN
         /\ WebCommit(r)
    /\ UNCHANGED <<prog, faults, now, lock, pc, loc>>

WebAddMember ==
    /\ prog = "Web"
    /\ Running
    /\ \E member_id \in WebMemberIds, name \in WebNames :
         LET r == Web_add_member(Lib, member_id, name) IN
         /\ WebCommit(r)
    /\ UNCHANGED <<prog, faults, now, lock, pc, loc>>

WebBorrow ==
    /\ prog = "Web"
    /\ Running
    /\ \E c \in WebCalls :
         LET r == Web_borrow_book(Lib, now, c.member_key, c.book_key, c.by, c.by) IN
         /\ Len(r.L.history) <= MaxHist
         /\ WebCommit(r)
    /\ UNCHANGED <<prog, faults, now, lock, pc, loc>>

WebReturn ==
    /\ prog = "Web"
    /\ Running
    /\ \E c \in WebCalls :
         LET r == Web_return_book(Lib, now, c.member_key, c.book_key, c.by, c.by) IN
         /\ Len(r.L.history) <= MaxHist
         /\ WebCommit(r)
    /\ UNCHANGED <<prog, faults, now, lock, pc, loc>>

\* LibraryApp.ui_show_history: reads the ledger, writes only the output widget
WebShowHistory ==
    /\ prog = "Web"
    /\ Running
    /\ last' = [ok |-> TRUE, msg |-> "history shown", lines |-> ui_show_history(history)]
    /\ UNCHANGED <<prog, faults, books, members, history, disk, now, lock, pc, loc>>

\* LibraryApp.ui_exit, the dialog answered yes: save_data, then the window is
\* destroyed and the program ends
ui_exit(L) == Ret(L, TRUE, "exited", TRUE)

WebExit ==
    /\ prog = "Web"
    /\ Running
    /\ WebCommit(ui_exit(Lib))
    /\ UNCHANGED <<prog, faults, now, lock, pc, loc>>

---------------------------------------------------------------------------
(* src/app.py *)

\* Book(book_id, title, author, total_copies): available_copies = total_copies
AppBook(book_id, title, author, total_copies) ==
    [book_id |-> book_id, title |-> title, author |-> author,
     total_copies |-> total_copies, available_copies |-> total_copies]

\* Member(member_id, name): borrowed_books = []
AppMember(member_id, name) ==
    [member_id |-> member_id, name |-> name, borrowed_books |-> <<>>]

\* Library.get_member: position in members, 0 for MemberNotFoundError
get_member_AnyMember(mbs, member_id) == IF Len(mbs) > 0 THEN 1 ELSE 0

get_member(mbs, member_id) == FirstWith(mbs, "member_id", member_id)

\* a search that settles for the first book of the catalog
search_book_AnyBook(bks, title) == IF Len(bks) > 0 THEN 1 ELSE 0

\* Library.search_book: position in books, 0 for BookNotFoundError
search_book(bks, title) == FirstWithLower(bks, "title", Lower(title))

\* a copy check that is off by one
MemberBorrowRefused_BelowZero(b) == b.available_copies < 0

\* the guard of Member.borrow_book
MemberBorrowRefused(b) == b.available_copies <= 0

\* the guard of Member.return_book
MemberHolds(m, b) == InList(b.book_id, m.borrowed_books)

\* Member.return_book: the copy count after a return
ReturnedCopies(b) == Min(b.available_copies + 1, b.total_copies)

\* the files of Library.__init__, in the order save_to_file writes them
AppFiles == <<"books_file", "members_file", "available_file", "borrowed_file">>
AppFileNames == {AppFiles[k] : k \in 1..Len(AppFiles)}
FileNo(f) == CHOOSE k \in 1..Len(AppFiles) : AppFiles[k] = f

\* the filters of the list comprehensions of save_to_file
Available(b) == b.available_copies > 0
Borrowed(b) == b.available_copies < b.total_copies

\* save_to_file: the list it dumps to file k
AppFileList(L, k) ==
    CASE k = 1 -> L.books
      [] k = 2 -> L.members
      [] k = 3 -> SelectSeq(L.books, Available)
      [] k = 4 -> SelectSeq(L.books, Borrowed)

\* Library.save_to_file: the content json.dump writes to the four files
AppSaveToFile(L) ==
    [f \in AppFileNames |-> Some(JsonList(AppFileList(L, FileNo(f))))]

\* none of the four files is there
NoFiles == [f \in AppFileNames |-> None]

\* the store before the program's first write
NoStore == IF prog = "Web" THEN None ELSE NoFiles

\* json.dump(..., indent=4): the number of characters it writes
Indent == 4

RECURSIVE DigitsLen(_)
DigitsLen(n) ==
    IF n < 0 THEN 1 + DigitsLen(0 - n)
    ELSE IF n < 10 THEN 1 ELSE 1 + DigitsLen(n \div 10)

\* a str between its quotes, the characters json escapes taking two
RECURSIVE StrLen(_)
StrLen(s) ==
    IF s = <<>> THEN 2
    ELSE (IF Head(s) \in {"\t", "\n", "\"", "\\"} THEN 2 ELSE 1) + StrLen(Tail(s))

RECURSIVE SumLens(_)
SumLens(lens) == IF lens = <<>> THEN 0 ELSE Head(lens) + SumLens(Tail(lens))

\* a list or dict at nesting depth d whose items take lens characters: the
\* brackets, each item on a line of its own behind its indentation, a comma
\* between two items; [] or {} when empty
BlockLen(lens, d) ==
    IF lens = <<>> THEN 2
    ELSE 1 + SumLens(lens) + Len(lens) * (1 + Indent * (d + 1))
           + (Len(lens) - 1) + 1 + Indent * d + 1

IntListLen(list, d) == BlockLen([i \in 1..Len(list) |-> DigitsLen(list[i])], d)

\* the keys of to_dict, their characters counted
KeyLen == [book_id |-> 7, title |-> 5, author |-> 6, total_copies |-> 12,
           available_copies |-> 16, member_id |-> 9, name |-> 4,
           borrowed_books |-> 14]

\* "key": value
ItemLen(key, vlen) == KeyLen[key] + 2 + 2 + vlen

\* Member.to_dict / Book.to_dict as json.dump writes them at depth d
MemberTextLen(m, d) ==
    BlockLen(<<ItemLen("member_id", DigitsLen(m.member_id)),
               ItemLen("name", StrLen(m.name)),
               ItemLen("borrowed_books", IntListLen(m.borrowed_books, d + 1))>>, d)
BookTextLen(b, d) ==
    BlockLen(<<ItemLen("book_id", DigitsLen(b.book_id)),
               ItemLen("title", StrLen(b.title)),
               ItemLen("author", StrLen(b.author)),
               ItemLen("total_copies", DigitsLen(b.total_copies)),
               ItemLen("available_copies", DigitsLen(b.available_copies))>>, d)

\* the text of one of the four files
TextLen(content) ==
    BlockLen([i \in 1..Len(content.array) |->
                 IF "member_id" \in DOMAIN content.array[i]
                 THEN MemberTextLen(content.array[i], 1)
                 ELSE BookTextLen(content.array[i], 1)], 0)

\* closing a file that was opened with "w": the buffered text goes to the
\* file from offset 0, over what the file holds by then.  The file is empty
\* unless another handle wrote it since this one's open truncated it; a longer
\* text of the other handle keeps its tail behind this one's, which is no JSON
Overwrite(cur, mine) ==
    IF cur = None \/ JsonLoadRaises(TheValue(cur)) THEN Some(mine)
    ELSE IF TextLen(TheValue(cur)) > TextLen(mine) THEN Some(NotJson)
    ELSE Some(mine)

\* a from_dict that leaves the stored availability aside
AppBookFromDict_AllAvailable(d) ==
    [book_id |-> d.book_id, title |-> d.title, author |-> d.author,
     total_copies |-> DictGet(d, "total_copies", 1),
     available_copies |-> DictGet(d, "total_copies", 1)]

\* Book.from_dict
AppBookFromDict(d) ==
    [book_id |-> d.book_id, title |-> d.title, author |-> d.author,
     total_copies |-> DictGet(d, "total_copies", 1),
     available_copies |->
         DictGet(d, "available_copies", DictGet(d, "total_copies", 1))]

\* data["book_id"], data["title"], data["author"] raise KeyError
AppBookKeysOk(d) == {"book_id", "title", "author"} \subseteq DOMAIN d

\* Member.from_dict
AppMemberFromDict(d) ==
    [member_id |-> d.member_id, name |-> d.name,
     borrowed_books |-> d.borrowed_books]

\* m["member_id"], data["name"], data["borrowed_books"] raise KeyError
AppMemberKeysOk(d) == {"member_id", "name", "borrowed_books"} \subseteq DOMAIN d

\* {m["member_id"]: Member.from_dict(m) for m in data}
RECURSIVE AppMembersFrom(_)
AppMembersFrom(data) ==
    IF data = <<>> THEN <<>>
    ELSE LET m == data[Len(data)]
         IN  DictSet(AppMembersFrom(SubSeq(data, 1, Len(data) - 1)),
                     "member_id", m.member_id, AppMemberFromDict(m))

\* Library.load_from_file on the four files: the library it leaves, and the
\* exception that leaves it ("none": it returns).  A file that is missing
\* leaves its collection empty (except FileNotFoundError); json.load and
\* from_dict have no handler.
AppLoadFromFile(file) ==
    LET bf == file.books_file
        mf == file.members_file
        bdata == TheValue(bf).array
        mdata == TheValue(mf).array
        bks == IF bf = None THEN <<>>
               ELSE [i \in 1..Len(bdata) |-> AppBookFromDict(bdata[i])]
    IN
    IF bf # None /\ JsonLoadRaises(TheValue(bf))
    THEN [L |-> EmptyLib, raised |-> "JSONDecodeError"]
    ELSE IF bf # None /\ \E i \in 1..Len(bdata) : ~AppBookKeysOk(bdata[i])
    THEN [L |-> EmptyLib, raised |-> "KeyError"]
    ELSE IF mf # None /\ JsonLoadRaises(TheValue(mf))
    THEN [L |-> [EmptyLib EXCEPT !.books = bks], raised |-> "JSONDecodeError"]
    ELSE IF mf # None /\ \E i \in 1..Len(mdata) : ~AppMemberKeysOk(mdata[i])
    THEN [L |-> [EmptyLib EXCEPT !.books = bks], raised |-> "KeyError"]
    ELSE [L |-> [books |-> bks,
                 members |-> IF mf = None THEN <<>> ELSE AppMembersFrom(mdata),
                 history |-> <<>>],
          raised |-> "none"]

\* add_book -> Library.add_book
App_add_book(L, book_id, title, author, copies) ==
    Ret([L EXCEPT !.books = Append(@, AppBook(book_id, title, author, copies))],
        TRUE, "Book added successfully.", TRUE)

\* add_member -> Library.add_member
App_add_member(L, member_id, name) ==
    Ret([L EXCEPT !.members =
             DictSet(@, "member_id", member_id, AppMember(member_id, name))],
        TRUE, "Member added successfully.", TRUE)

\* borrow_book -> Library.borrow_book -> Member.borrow_book
App_borrow_book(L, member_id, title) ==
    LET mi == get_member(L.members, member_id)
        bi == search_book(L.books, title)
    IN
    IF mi = 0 THEN Ret(L, FALSE, "MemberNotFoundError", FALSE)
    ELSE IF bi = 0 THEN Ret(L, FALSE, "BookNotFoundError", FALSE)
    ELSE IF MemberBorrowRefused(L.books[bi])
    THEN Ret(L, FALSE, "AlreadyBorrowedError", FALSE)
    ELSE Ret([L EXCEPT !.books[bi].available_copies = @ - 1,
                       !.members[mi].borrowed_books =
                            Append(@, L.books[bi].book_id)],
             TRUE, "Book borrowed successfully.", TRUE)

\* return_book -> Library.return_book -> Member.return_book
App_return_book(L, member_id, title) ==
    LET mi == get_member(L.members, member_id)
        bi == search_book(L.books, title)
    IN
    IF mi = 0 THEN Ret(L, FALSE, "MemberNotFoundError", FALSE)
    ELSE IF bi = 0 THEN Ret(L, FALSE, "BookNotFoundError", FALSE)
    ELSE IF MemberHolds(L.members[mi], L.books[bi])
    THEN Ret([L EXCEPT !.books[bi].available_copies = ReturnedCopies(L.books[bi]),
                       !.members[mi].borrowed_books =
                            ListRemove(@, L.books[bi].book_id)],
             TRUE, "Book returned successfully.", TRUE)
    ELSE Ret(L, TRUE, "Book returned successfully.", TRUE)

AppCommit(r) ==
    /\ books' = r.L.books
    /\ members' = r.L.members
    /\ disk' = IF r.saved THEN AppSaveToFile(r.L) ELSE disk
    /\ last' = [ok |-> r.ok, msg |-> r.msg]

AppAddBook ==
    /\ prog = "app"
    /\ Running
    /\ Len(books) < MaxBooks
    /\ \E b \in AppBookInputs, author \in Authors :
         AppCommit(App_add_book(Lib, b.book_id, b.title, author, b.copies))
    /\ UNCHANGED <<prog, faults, history, now, lock, pc, loc>>

AppAddMember ==
    /\ prog = "app"
    /\ Running
    /\ \E member_id \in AppMemberIds, name \in AppNames :
         AppCommit(App_add_member(Lib, member_id, name))
    /\ UNCHANGED <<prog, faults, history, now, lock, pc, loc>>

AppBorrow ==
    /\ prog = "app"
    /\ Running
    /\ \E member_id \in AppMemberIds, title \in AppTitleKeys :
         AppCommit(App_borrow_book(Lib, member_id, title))
    /\ UNCHANGED <<prog, faults, history, now, lock, pc, loc>>

AppReturn ==
    /\ prog = "app"
    /\ Running
    /\ \E member_id \in AppMemberIds, title \in AppTitleKeys :
         AppCommit(App_return_book(Lib, member_id, title))
    /\ UNCHANGED <<prog, faults, history, now, lock, pc, loc>>

\* time passes between calls
Elapse == (DueDays + 3) * SecPerDay + 30

Tick ==
    /\ prog = "Web"
    /\ now + Elapse <= MaxTicks * Elapse
    /\ now' = now + Elapse
    /\ UNCHANGED <<prog, faults, books, members, history, disk, last, lock, pc, loc>>

Threads == {"t1", "t2"}

\* a worker thread that runs no call.  Its locals: the handler it runs and the
\* arguments; member, the Member object get_member returned, as its position
\* in the roster (mi) or, once add_member has put another object in its place,
\* as the object itself (orphan); book as its position in the catalog (bi);
\* the count read by `-= 1` (copies); in save_to_file the file being written
\* (file), the position of the list comprehension (i) and the list built so
\* far (snap).  to_dict of a Member puts the object's borrowed_books list
\* itself into the dict, so an entry of snap either still reads the list of
\* the member at roster position pos (pos > 0) or is a value (pos = 0).
Idle == [calls |-> 0, succeeded |-> 0, handler |-> "none", member_id |-> 0,
         title |-> <<>>, mi |-> 0, orphan |-> None, bi |-> 0, copies |-> 0,
         file |-> 0, i |-> 0, snap |-> <<>>, ret |-> "none"]

Init ==
    /\ prog \in {"Web", "app"}
    /\ books = <<>>
    /\ members = <<>>
    /\ history = <<>>
    /\ disk = NoStore
    /\ faults = 0
    /\ now = 0
    /\ last = [ok |-> TRUE, msg |-> "started"]
    /\ lock = None
    /\ pc = [t \in Threads |-> "idle"]
    /\ loc = [t \in Threads |-> Idle]

Next ==
    \/ WebAddBook
    \/ WebAddMember
    \/ WebBorrow
    \/ WebReturn
    \/ WebShowHistory
    \/ WebExit
    \/ AppAddBook
    \/ AppAddMember
    \/ AppBorrow
    \/ AppReturn
    \/ Tick

Spec == Init /\ [][Next]_vars

---------------------------------------------------------------------------
(* The programs with their store: writes that fail, a store that is damaged  *)
(* between two runs, and the restart that loads it.                          *)

\* what the calls of the Web.py engine return at library L and clock t
WebEngineCalls(L, t) ==
    {Web_add_book(L, book_id, title, author) :
        book_id \in WebBookIds, title \in WebTitles, author \in Authors}
    \cup {Web_add_member(L, member_id, name) :
        member_id \in WebMemberIds, name \in WebNames}
    \cup {Web_borrow_book(L, t, c.member_key, c.book_key, c.by, c.by) :
        c \in WebCalls}
    \cup {Web_return_book(L, t, c.member_key, c.book_key, c.by, c.by) :
        c \in WebCalls}

\* what the handlers of app.py get from the engine at library L
AppEngineCalls(L) ==
    {App_add_book(L, b.book_id, b.title, author, b.copies) :
        b \in AppBookInputs, author \in Authors}
    \cup {App_add_member(L, member_id, name) :
        member_id \in AppMemberIds, name \in AppNames}
    \cup {App_borrow_book(L, member_id, title) :
        member_id \in AppMemberIds, title \in AppTitleKeys}
    \cup {App_return_book(L, member_id, title) :
        member_id \in AppMemberIds, title \in AppTitleKeys}

\* how a call of the Web.py engine ends, its write to DATA_FILE succeeding or
\* not: save_data has no handler and neither have add_book, add_member,
\* borrow_book, return_book and their ui_ callers, so the OSError of open or
\* json.dump leaves the engine call after the mutation, no (ok, msg) returned
WebOutcome(r, write_ok) ==
    IF r.saved /\ ~write_ok
    THEN [L |-> r.L, returned |-> FALSE, ok |-> FALSE, msg |-> "OSError",
          written |-> FALSE]
    ELSE [L |-> r.L, returned |-> TRUE, ok |-> r.ok, msg |-> r.msg,
          written |-> r.saved]

\* how a handler of app.py ends: save_to_file turns any exception into
\* DatabaseError, which the handler's `except Exception` returns as its message
AppOutcome(r, write_ok) ==
    IF r.saved /\ ~write_ok
    THEN [L |-> r.L, returned |-> TRUE, ok |-> FALSE, msg |-> "DatabaseError",
          written |-> FALSE]
    ELSE [L |-> r.L, returned |-> TRUE, ok |-> r.ok, msg |-> r.msg,
          written |-> r.saved]

\* what a write that fails leaves of DATA_FILE: open(DATA_FILE, "w") raises and
\* the file is as it was, or open has truncated the file and json.dump or the
\* flush raises, leaving no JSON text
WebFailedStores(old) == {old, Some(NotJson)}

\* what a save_to_file that fails leaves of the four files: the files before
\* the k-th are written, the k-th is as it was (open raised) or truncated
\* (the write raised), the files after it are as they were
TornStore(old, new, k, opened) ==
    [f \in AppFileNames |->
        IF FileNo(f) < k THEN new[f]
        ELSE IF FileNo(f) = k /\ opened THEN Some(NotJson)
        ELSE old[f]]

AppFailedStores(old, new) ==
    {TornStore(old, new, k, opened) : k \in 1..Len(AppFiles), opened \in BOOLEAN}

\* a call of the Web.py engine, or the save of ui_exit, whose write fails
WebWriteFails ==
    /\ prog = "Web"
    /\ Running
    /\ faults < MaxFaults
    /\ \E r \in WebEngineCalls(Lib, now) \cup {ui_exit(Lib)} :
         LET o == WebOutcome(r, FALSE) IN
         /\ r.saved
         /\ Len(r.L.history) <= MaxHist
         /\ books' = o.L.books
         /\ members' = o.L.members
         /\ history' = o.L.history
         /\ last' = [ok |-> o.ok, msg |-> o.msg, returned |-> o.returned]
    /\ disk' \in WebFailedStores(disk)
    /\ faults' = faults + 1
    /\ UNCHANGED <<prog, now, lock, pc, loc>>

\* a handler of app.py whose write fails
AppWriteFails ==
    /\ prog = "app"
    /\ Running
    /\ faults < MaxFaults
    /\ \E r \in AppEngineCalls(Lib) :
         LET o == AppOutcome(r, FALSE) IN
         /\ r.saved
         /\ Len(r.L.books) <= MaxStoreBooks
         /\ books' = o.L.books
         /\ members' = o.L.members
         /\ last' = [ok |-> o.ok, msg |-> o.msg, returned |-> o.returned]
         /\ disk' \in AppFailedStores(disk, AppSaveToFile(o.L))
    /\ faults' = faults + 1
    /\ UNCHANGED <<prog, history, now, lock, pc, loc>>

\* contents of the store that no save wrote: text that is no JSON, JSON of
\* another shape (an array for the object, a book without its keys)
WebBadStores ==
    {Some(NotJson), Some(JsonArray),
     Some([books |-> <<[book_id |-> <<"1">>]>>])}
AppBadStores ==
    {[f \in AppFileNames |-> Some(NotJson)],
     [AppSaveToFile(EmptyLib) EXCEPT
         !.books_file = Some(JsonList(<<[title |-> <<"D">>]>>))]}
BadStores == IF prog = "Web" THEN WebBadStores ELSE AppBadStores

\* the store is damaged from outside the program
Damage ==
    /\ faults < MaxFaults
    /\ disk' \in BadStores
    /\ faults' = faults + 1
    /\ UNCHANGED <<prog, books, members, history, now, last, lock, pc, loc>>

\* Web.py starts: Library() -> load_data
WebRestart ==
    /\ prog = "Web"
    /\ LET r == WebLoadData(disk) IN
         /\ books' = r.L.books
         /\ members' = r.L.members
         /\ history' = r.L.history
         /\ last' = [ok |-> r.raised = "none",
                     msg |-> IF r.raised = "none" THEN "started" ELSE r.raised]
    /\ UNCHANGED <<prog, faults, disk, now, lock, pc, loc>>

\* app.py starts: lib = Library() -> load_from_file
AppRestart ==
    /\ prog = "app"
    /\ LET r == AppLoadFromFile(disk) IN
         /\ books' = r.L.books
         /\ members' = r.L.members
         /\ last' = [ok |-> r.raised = "none",
                     msg |-> IF r.raised = "none" THEN "started" ELSE r.raised]
    /\ UNCHANGED <<prog, faults, history, disk, now, lock, pc, loc>>

NextStore ==
    \/ WebAddBook
    \/ WebAddMember
    \/ WebBorrow
    \/ WebReturn
    \/ WebShowHistory
    \/ WebExit
    \/ Len(books) < MaxStoreBooks /\ AppAddBook
    \/ AppAddMember
    \/ AppBorrow
    \/ AppReturn
    \/ Tick
    \/ WebWriteFails
    \/ AppWriteFails
    \/ Damage
    \/ WebRestart
    \/ AppRestart

SpecStore == Init /\ [][NextStore]_vars

---------------------------------------------------------------------------
(* Web.py lending from a loaded catalog: the borrows and returns of a run    *)
(* that starts with two books and two members in the store.                  *)

LoanBorrow ==
    /\ prog = "Web"
    /\ \E c \in WebCalls :
         LET r == Web_borrow_book(Lib, now, c.member_key, c.book_key, c.by, c.by) IN
         /\ Len(r.L.history) <= MaxLoans
         /\ WebCommit(r)
    /\ UNCHANGED <<prog, faults, now, lock, pc, loc>>

LoanReturn ==
    /\ prog = "Web"
    /\ \E c \in WebCalls :
         LET r == Web_return_book(Lib, now, c.member_key, c.book_key, c.by, c.by) IN
         /\ Len(r.L.history) <= MaxLoans
         /\ WebCommit(r)
    /\ UNCHANGED <<prog, faults, now, lock, pc, loc>>

InitLoans ==
    /\ prog = "Web"
    /\ books = <<WebBook(<<"1">>, <<"D">>, <<"H">>), WebBook(<<"2">>, <<"d">>, <<"H">>)>>
    /\ members = <<WebMember(<<"7">>, <<"A">>), WebMember(<<"8">>, <<"A">>)>>
    /\ history = <<>>
    /\ disk = WebSaveData(Lib)
    /\ faults = 0
    /\ now = 0
    /\ last = [ok |-> TRUE, msg |-> "started"]
    /\ lock = None
    /\ pc = [t \in Threads |-> "idle"]
    /\ loc = [t \in Threads |-> Idle]

NextLoans ==
    \/ LoanBorrow
    \/ LoanReturn

SpecLoans == InitLoans /\ [][NextLoans]_vars

---------------------------------------------------------------------------
(* src/app.py under its worker threads: gradio runs each click handler on a  *)
(* worker thread, so calls of borrow_book overlap.  One action per step of   *)
(* Library.borrow_book / Member.borrow_book between two thread switches.     *)

\* the catalog the library loads at construction in the threaded runs
ThreadCopies == {1, 2}

\* borrow_book without the lock
LockFree_NoLock(l) == TRUE

\* Lock.acquire on entering `with self.lock`: may proceed only on a free lock
LockFree(l) == l = None

Goto(t, label) == pc' = [pc EXCEPT ![t] = label]

\* the handler on thread t returns ret: its locals are gone
Returned(l, ret) ==
    [Idle EXCEPT !.calls = l.calls, !.ret = ret,
                 !.succeeded = l.succeeded
                     + (IF ret = "Book borrowed successfully." THEN 1 ELSE 0)]

\* the click handler borrow_book(member_id, title) starts on thread t
TCall(t) ==
    /\ pc[t] = "idle"
    /\ loc[t].calls < MaxCalls
    /\ \E member_id \in AppMemberIds, title \in AppTitleKeys :
         loc' = [loc EXCEPT ![t].calls = @ + 1, ![t].handler = "borrow_book",
                            ![t].member_id = member_id,
                            ![t].title = title, ![t].ret = "none"]
    /\ Goto(t, "acquire")
    /\ UNCHANGED <<prog, faults, books, members, history, disk, now, last, lock>>

\* with self.lock:
TAcquire(t) ==
    /\ pc[t] = "acquire"
    /\ LockFree(lock)
    /\ lock' = Some(t)
    /\ Goto(t, "get_member")
    /\ UNCHANGED <<prog, faults, books, members, history, disk, now, last, loc>>

\* member = self.get_member(member_id)
TGetMember(t) ==
    /\ pc[t] = "get_member"
    /\ LET mi == get_member(members, loc[t].member_id) IN
       IF mi = 0
       THEN /\ loc' = [loc EXCEPT ![t].ret = "MemberNotFoundError"]
            /\ Goto(t, "release")
       ELSE /\ loc' = [loc EXCEPT ![t].mi = mi]
            /\ Goto(t, "search_book")
    /\ UNCHANGED <<prog, faults, books, members, history, disk, now, last, lock>>

\* book = self.search_book(title)
TSearchBook(t) ==
    /\ pc[t] = "search_book"
    /\ LET bi == search_book(books, loc[t].title) IN
       IF bi = 0
       THEN /\ loc' = [loc EXCEPT ![t].ret = "BookNotFoundError"]
            /\ Goto(t, "release")
       ELSE /\ loc' = [loc EXCEPT ![t].bi = bi]
            /\ Goto(t, "check")
    /\ UNCHANGED <<prog, faults, books, members, history, disk, now, last, lock>>

\* Member.borrow_book: if book.available_copies <= 0: raise
TCheck(t) ==
    /\ pc[t] = "check"
    /\ IF MemberBorrowRefused(books[loc[t].bi])
       THEN /\ loc' = [loc EXCEPT ![t].ret = "AlreadyBorrowedError"]
            /\ Goto(t, "release")
       ELSE /\ loc' = loc
            /\ Goto(t, "load")
    /\ UNCHANGED <<prog, faults, books, members, history, disk, now, last, lock>>

\* book.available_copies -= 1: the read
TLoad(t) ==
    /\ pc[t] = "load"
    /\ loc' = [loc EXCEPT ![t].copies = books[loc[t].bi].available_copies]
    /\ Goto(t, "store")
    /\ UNCHANGED <<prog, faults, books, members, history, disk, now, last, lock>>

\* book.available_copies -= 1: the write
TStore(t) ==
    /\ pc[t] = "store"
    /\ books' = [books EXCEPT ![loc[t].bi].available_copies = loc[t].copies - 1]
    /\ Goto(t, "append")
    /\ UNCHANGED <<prog, faults, members, history, disk, now, last, lock, loc>>

\* self.borrowed_books.append(book.book_id), on the object get_member
\* returned: the roster shows the loan only while it still holds that object.
\* Then self.save_to_file() is entered.
TAppend(t) ==
    /\ pc[t] = "append"
    /\ members' = IF loc[t].orphan = None
                  THEN [members EXCEPT ![loc[t].mi].borrowed_books =
                            Append(@, books[loc[t].bi].book_id)]
                  ELSE members
    /\ loc' = [loc EXCEPT ![t].mi = 0, ![t].orphan = None, ![t].bi = 0,
                          ![t].copies = 0, ![t].file = 1]
    /\ Goto(t, "open")
    /\ UNCHANGED <<prog, faults, books, history, disk, now, last, lock>>

\* the positions of thread t inside save_to_file
SaveLabels == {"open", "list", "to_dict", "dump"}

\* save_to_file: with open(file, "w") as f: the file is there and empty
TSaveOpen(t) ==
    /\ pc[t] = "open"
    /\ disk' = [disk EXCEPT ![AppFiles[loc[t].file]] = Some(NotJson)]
    /\ loc' = [loc EXCEPT ![t].i = 1]
    /\ Goto(t, "list")
    /\ UNCHANGED <<prog, faults, books, members, history, now, last, lock>>

\* save_to_file: the list comprehension takes its next element.  Of the
\* members it keeps a dict around the object's own list; of the books it
\* evaluates the filter (the first file has none and takes to_dict at once).
TSaveList(t) ==
    /\ pc[t] = "list"
    /\ LET k == loc[t].file
           i == loc[t].i
       IN
       IF i > (IF k = 2 THEN Len(members) ELSE Len(books))
       THEN /\ loc' = [loc EXCEPT ![t].i = 0]
            /\ Goto(t, "dump")
       ELSE IF k = 2
       THEN /\ loc' = [loc EXCEPT
                          ![t].snap = Append(@,
                              [pos |-> i,
                               val |-> [members[i] EXCEPT !.borrowed_books = <<>>]]),
                          ![t].i = i + 1]
            /\ pc' = pc
       ELSE IF k = 1
       THEN /\ loc' = [loc EXCEPT
                          ![t].snap = Append(@, [pos |-> 0, val |-> books[i]]),
                          ![t].i = i + 1]
            /\ pc' = pc
       ELSE IF (k = 3 /\ Available(books[i])) \/ (k = 4 /\ Borrowed(books[i]))
       THEN /\ loc' = loc
            /\ Goto(t, "to_dict")
       ELSE /\ loc' = [loc EXCEPT ![t].i = i + 1]
            /\ pc' = pc
    /\ UNCHANGED <<prog, faults, books, members, history, disk, now, last, lock>>

\* save_to_file: book.to_dict() of a book that passed the filter
TSaveToDict(t) ==
    /\ pc[t] = "to_dict"
    /\ loc' = [loc EXCEPT
                  ![t].snap = Append(@, [pos |-> 0, val |-> books[loc[t].i]]),
                  ![t].i = @ + 1]
    /\ Goto(t, "list")
    /\ UNCHANGED <<prog, faults, books, members, history, disk, now, last, lock>>

\* save_to_file: json.dump(list, f) encodes the next borrowed_books list it
\* reaches as that list is now; past the last one the `with` block closes the
\* file, which takes the text, and the next file is opened or, after the
\* fourth, the handler returns its message
TSaveDump(t) ==
    /\ pc[t] = "dump"
    /\ LET k == loc[t].file
           snap == loc[t].snap
           live == {j \in 1..Len(snap) : snap[j].pos > 0}
           j == CHOOSE x \in live : \A y \in live : x <= y
       IN
       IF live # {}
       THEN /\ loc' = [loc EXCEPT ![t].snap[j] =
                          [pos |-> 0,
                           val |-> [snap[j].val EXCEPT !.borrowed_books =
                                       members[snap[j].pos].borrowed_books]]]
            /\ pc' = pc
            /\ disk' = disk
       ELSE /\ disk' = [disk EXCEPT ![AppFiles[k]] =
                           Overwrite(@, JsonList([x \in 1..Len(snap) |-> snap[x].val]))]
            /\ IF k < Len(AppFiles)
               THEN /\ loc' = [loc EXCEPT ![t].file = k + 1, ![t].snap = <<>>]
                    /\ Goto(t, "open")
               ELSE IF loc[t].handler = "borrow_book"
               THEN /\ loc' = [loc EXCEPT ![t].file = 0, ![t].snap = <<>>,
                                          ![t].ret = "Book borrowed successfully."]
                    /\ Goto(t, "release")
               ELSE /\ loc' = [loc EXCEPT ![t] =
                                  Returned(loc[t], "Member added successfully.")]
                    /\ Goto(t, "idle")
    /\ UNCHANGED <<prog, faults, books, members, history, now, last, lock>>

\* leaving `with self.lock` (normally or by the exception), then the handler
\* returns its message
TRelease(t) ==
    /\ pc[t] = "release"
    /\ lock' = None
    /\ loc' = [loc EXCEPT ![t] = Returned(loc[t], loc[t].ret)]
    /\ Goto(t, "idle")
    /\ UNCHANGED <<prog, faults, books, members, history, disk, now, last>>

InitThreads ==
    /\ prog = "app"
    /\ \E copies \in ThreadCopies :
         books = <<AppBook(1, <<"D">>, <<"H">>, copies)>>
    /\ members = <<AppMember(7, <<"A">>), AppMember(8, <<"A">>)>>
    /\ history = <<>>
    /\ disk = AppSaveToFile(Lib)
    /\ faults = 0
    /\ now = 0
    /\ last = [ok |-> TRUE, msg |-> "started"]
    /\ lock = None
    /\ pc = [t \in Threads |-> "idle"]
    /\ loc = [t \in Threads |-> Idle]

NextThreads ==
    \E t \in Threads :
        \/ TCall(t)
        \/ TAcquire(t)
        \/ TGetMember(t)
        \/ TSearchBook(t)
        \/ TCheck(t)
        \/ TLoad(t)
        \/ TStore(t)
        \/ TAppend(t)
        \/ TSaveOpen(t)
        \/ TSaveList(t)
        \/ TSaveToDict(t)
        \/ TSaveDump(t)
        \/ TRelease(t)

SpecThreads == InitThreads /\ [][NextThreads]_vars

---------------------------------------------------------------------------
(* src/app.py with add_member among the overlapping handlers: borrow_book    *)
(* as above, add_member in its steps: the roster entry is set, then          *)
(* save_to_file runs, neither under the lock.                                *)

\* the click handler add_member(member_id, name) starts on thread t
TCallAddMember(t) ==
    /\ pc[t] = "idle"
    /\ loc[t].calls < MaxCalls
    /\ \E member_id \in AppMemberIds :
         loc' = [loc EXCEPT ![t].calls = @ + 1, ![t].handler = "add_member",
                            ![t].member_id = member_id, ![t].ret = "none"]
    /\ Goto(t, "add_set")
    /\ UNCHANGED <<prog, faults, books, members, history, disk, now, last, lock>>

\* the locals l once the roster holds another object at position p: what
\* referred to the member at p keeps the object that was there, obj.  (With
\* two threads no other thread shares that object from then on, so the
\* locals keep it by value.)
Detached(l, p, obj) ==
    IF p = 0 THEN l
    ELSE [l EXCEPT !.orphan = IF l.mi = p THEN Some(obj) ELSE @,
                   !.mi = IF @ = p THEN 0 ELSE @,
                   !.snap = [j \in 1..Len(l.snap) |->
                                IF l.snap[j].pos = p
                                THEN [pos |-> 0, val |-> obj]
                                ELSE l.snap[j]]]

\* Library.add_member: self.members[member.member_id] = member, a new Member
\* object; then self.save_to_file() is entered
TAddSet(t) ==
    /\ pc[t] = "add_set"
    /\ \E name \in AppNames :
         LET p == FirstWith(members, "member_id", loc[t].member_id)
             obj == members[p]
         IN
         /\ members' = DictSet(members, "member_id", loc[t].member_id,
                               AppMember(loc[t].member_id, name))
         /\ loc' = [u \in Threads |->
                       IF u = t THEN [Detached(loc[u], p, obj) EXCEPT !.file = 1]
                       ELSE Detached(loc[u], p, obj)]
    /\ Goto(t, "open")
    /\ UNCHANGED <<prog, faults, books, history, disk, now, last, lock>>

NextMutators ==
    \E t \in Threads :
        \/ TCall(t)
        \/ TAcquire(t)
        \/ TGetMember(t)
        \/ TSearchBook(t)
        \/ TCheck(t)
        \/ TLoad(t)
        \/ TStore(t)
        \/ TAppend(t)
        \/ TSaveOpen(t)
        \/ TSaveList(t)
        \/ TSaveToDict(t)
        \/ TSaveDump(t)
        \/ TRelease(t)
        \/ TCallAddMember(t)
        \/ TAddSet(t)

SpecMutators == InitThreads /\ [][NextMutators]_vars

---------------------------------------------------------------------------
(* Properties of the threaded runs (SpecThreads) *)

\* threads that passed the availability check and have not returned yet
Passed == {t \in Threads :
              \/ pc[t] \in {"load", "store", "append"} \cup SaveLabels
              \/ pc[t] = "release" /\ loc[t].ret = "Book borrowed successfully."}

\* threads of Passed whose decrement is written
Stored == {t \in Passed : pc[t] \in {"append", "release"} \cup SaveLabels}

RECURSIVE Succeeded(_)
Succeeded(T) ==
    IF T = {} THEN 0
    ELSE LET t == CHOOSE x \in T : TRUE
         IN  loc[t].succeeded + Succeeded(T \ {t})

\* C7: concurrent borrows of one book never succeed more often than the copies
\* available before they started: the borrows that succeeded or are past the
\* availability check number at most total_copies (all copies being in at the
\* start), no two borrows are past the check together, and available_copies
\* is the starting count less the decrements written, never negative; a thread
\* anywhere from resolving the member to saving holds the lock.
C7_NoLostUpdate ==
    /\ \A t \in Threads :
          pc[t] \notin {"idle", "acquire"} => lock = Some(t)
    /\ \A bi \in BookIdx :
        /\ Succeeded(Threads) + Cardinality(Passed) <= books[bi].total_copies
        /\ Cardinality(Passed) <= 1
        /\ books[bi].available_copies >= 0
        /\ books[bi].available_copies
               = books[bi].total_copies - Succeeded(Threads) - Cardinality(Stored)

\* one thread is between the read and the write of the last copy's count while
\* the other waits for the lock to borrow the same book
C7_Witness ==
    \E t, u \in Threads :
        /\ t # u
        /\ pc[t] = "store" /\ pc[u] = "acquire"
        /\ loc[t].title = loc[u].title
        /\ books[loc[t].bi].available_copies = 1

\* threads between their mutation of the library in memory and the end of
\* their own write of the store
Unsaved == {t \in Threads : pc[t] \in {"append"} \cup SaveLabels}

\* threads inside save_to_file
InSaveToFile == {t \in Threads : pc[t] \in SaveLabels}

\* C19: app.py: every mutating operation runs its mutation and its write of the
\* store under mutual exclusion: a thread between its mutation and the end of
\* its write holds the lock, no two threads are inside save_to_file together,
\* and no thread is inside save_to_file while another is between its mutation
\* and the end of its own write.
C19_MutateAndPersistExclusive ==
    /\ \A t \in Unsaved : lock = Some(t)
    /\ Cardinality(InSaveToFile) <= 1
    /\ \A t \in InSaveToFile : Unsaved \ {t} = {}

---------------------------------------------------------------------------
(* Properties of the sequential operation surface (Spec) *)

\* C1: app.py: every book satisfies 0 <= available_copies <= total_copies.
C1_AvailableWithinTotal ==
    prog = "app" =>
        \A i \in BookIdx :
            /\ 0 <= books[i].available_copies
            /\ books[i].available_copies <= books[i].total_copies

\* C2: Web.py: a book's id is in a member's borrowed_book_ids exactly when the
\* book is borrowed with that member as borrower_id.
C2_BorrowedListIsOpenLoans ==
    prog = "Web" =>
        \A mi \in MemberIdx, bi \in BookIdx :
            InList(books[bi].book_id, members[mi].borrowed_book_ids)
            <=> /\ books[bi].is_borrowed
                /\ books[bi].borrower_id = Some(members[mi].member_id)

\* after a borrow and a return of another book, one member holds a book that
\* the other member does not
C2_Witness ==
    /\ prog = "Web"
    /\ last.msg = "borrowed"
    /\ Len(history) = 2
    /\ \E mi, mj \in MemberIdx, bi \in BookIdx :
          /\ mi # mj
          /\ books[bi].borrower_id = Some(members[mi].member_id)
          /\ InList(books[bi].book_id, members[mi].borrowed_book_ids)
          /\ ~InList(books[bi].book_id, members[mj].borrowed_book_ids)

\* occurrences of a book id over all members' borrowed_books lists
Holders(book_id) ==
    LET Occ == UNION {{<<mi, k>> : k \in 1..Len(members[mi].borrowed_books)} :
                         mi \in MemberIdx}
    IN  Cardinality({p \in Occ : members[p[1]].borrowed_books[p[2]] = book_id})

\* C3: app.py: for every book, total_copies - available_copies equals the number
\* of occurrences of its id over all members' borrowed_books lists.
C3_OutstandingMatchesHolders ==
    prog = "app" =>
        \A i \in BookIdx :
            books[i].total_copies - books[i].available_copies
                = Holders(books[i].book_id)

\* C4: a borrow that resolves to a book with no available copy (app.py:
\* available_copies = 0, Web.py: is_borrowed) fails with the no-copies error and
\* leaves books, members and history as they were.
C4_BorrowWithoutCopiesFails ==
    /\ prog = "Web" =>
         \A c \in WebCalls :
            LET mi == WebResolveMember(Lib, c.member_key, c.by)
                bi == WebResolveBook(Lib, c.book_key, c.by)
                r == Web_borrow_book(Lib, now, c.member_key, c.book_key, c.by, c.by)
            IN (mi # 0 /\ bi # 0 /\ books[bi].is_borrowed) =>
                 /\ ~r.ok /\ r.msg = "Book already borrowed."
                 /\ r.L = Lib /\ ~r.saved
    /\ prog = "app" =>
         \A member_id \in AppMemberIds, title \in AppTitleKeys :
            LET mi == get_member(members, member_id)
                bi == search_book(books, title)
                r == App_borrow_book(Lib, member_id, title)
            IN (mi # 0 /\ bi # 0 /\ books[bi].available_copies = 0) =>
                 /\ ~r.ok /\ r.msg = "AlreadyBorrowedError"
                 /\ r.L = Lib /\ ~r.saved

\* a borrow was just refused for lack of copies, all copies of a book being out
C4_Witness ==
    /\ prog = "app"
    /\ last.msg = "AlreadyBorrowedError"
    /\ \E i \in BookIdx :
          books[i].available_copies = 0 /\ books[i].total_copies > 0

\* C5: a return whose resolved member holds no open loan of the resolved book
\* fails with a not-held error and mutates nothing, in Web.py and in app.py.
C5_ReturnNotHeldFails ==
    /\ prog = "Web" =>
         \A c \in WebCalls :
            LET mi == WebResolveMember(Lib, c.member_key, c.by)
                bi == WebResolveBook(Lib, c.book_key, c.by)
                r == Web_return_book(Lib, now, c.member_key, c.book_key, c.by, c.by)
            IN (mi # 0 /\ bi # 0
                  /\ ~InList(books[bi].book_id, members[mi].borrowed_book_ids)) =>
                 /\ ~r.ok /\ r.msg = "This member does not hold that book."
                 /\ r.L = Lib
    /\ prog = "app" =>
         \A member_id \in AppMemberIds, title \in AppTitleKeys :
            LET mi == get_member(members, member_id)
                bi == search_book(books, title)
                r == App_return_book(Lib, member_id, title)
            IN (mi # 0 /\ bi # 0
                  /\ ~InList(books[bi].book_id, members[mi].borrowed_books)) =>
                 /\ ~r.ok
                 /\ r.L = Lib

\* C6: adding a book or member whose id is already present is rejected and
\* changes nothing, so ids stay unique within books and within members.
C6_DuplicateIdRejected ==
    /\ \A i, j \in BookIdx : books[i].book_id = books[j].book_id => i = j
    /\ \A i, j \in MemberIdx : members[i].member_id = members[j].member_id => i = j
    /\ prog = "Web" =>
         /\ \A book_id \in WebBookIds, title \in WebTitles, author \in Authors :
               LET r == Web_add_book(Lib, book_id, title, author)
               IN FirstWith(books, "book_id", book_id) # 0 => ~r.ok /\ r.L = Lib
         /\ \A member_id \in WebMemberIds, name \in WebNames :
               LET r == Web_add_member(Lib, member_id, name)
               IN FirstWith(members, "member_id", member_id) # 0 => ~r.ok /\ r.L = Lib
    /\ prog = "app" =>
         /\ \A b \in AppBookInputs, author \in Authors :
               LET r == App_add_book(Lib, b.book_id, b.title, author, b.copies)
               IN FirstWith(books, "book_id", b.book_id) # 0 => ~r.ok /\ r.L = Lib
         /\ \A member_id \in AppMemberIds, name \in AppNames :
               LET r == App_add_member(Lib, member_id, name)
               IN FirstWith(members, "member_id", member_id) # 0 => ~r.ok /\ r.L = Lib

\* C8: whenever a borrow succeeds, a return by the same member of the same book
\* right after it succeeds and gives back the books and the members (borrowed
\* lists included) of before the borrow, the history having two more entries,
\* one borrow and one return.
C8_BorrowThenReturnRestores ==
    /\ prog = "Web" =>
         \A c \in WebCalls :
            LET r1 == Web_borrow_book(Lib, now, c.member_key, c.book_key, c.by, c.by)
                r2 == Web_return_book(r1.L, now, c.member_key, c.book_key, c.by, c.by)
            IN r1.ok =>
                 /\ r2.ok
                 /\ r2.L.books = books
                 /\ r2.L.members = members
                 /\ Len(r2.L.history) = Len(history) + 2
                 /\ SubSeq(r2.L.history, 1, Len(history)) = history
                 /\ r2.L.history[Len(history) + 1].action = "borrow"
                 /\ r2.L.history[Len(history) + 2].action = "return"
    /\ prog = "app" =>
         \A member_id \in AppMemberIds, title \in AppTitleKeys :
            LET r1 == App_borrow_book(Lib, member_id, title)
                r2 == App_return_book(r1.L, member_id, title)
            IN (r1.ok /\ r1.msg = "Book borrowed successfully.") =>
                 /\ r2.ok
                 /\ r2.L.books = books
                 /\ r2.L.members = members

\* what one call of the operation surface may change
callvars == <<books, members, history, disk, last>>

\* due_date strings a loaded store can hold that no borrow wrote: none
\* (null or "") and one that DATE_FMT does not parse
BadDueDates == {None, Some(0 - 1)}

\* C11: Web.py: a successful borrow at clock T sets the book's due date to
\* T + 7 days (as DATE_FMT writes it, the minute holding T + 7 days) and records
\* it in the ledger; a successful return at clock t records the fine
\* 10 * (whole days from the due date to t) when that is positive and 0
\* otherwise: 30 from exactly 3 days past the due date until 4 days past it, 0
\* before and at the due date and within the first day past it; with a missing
\* or unparseable due date the return still succeeds and the fine is 0.
C11_DueDateAndFine ==
    prog = "Web" =>
        \A c \in WebCalls :
            LET mi == WebResolveMember(Lib, c.member_key, c.by)
                bi == WebResolveBook(Lib, c.book_key, c.by)
                r1 == Web_borrow_book(Lib, now, c.member_key, c.book_key, c.by, c.by)
                r2 == Web_return_book(Lib, now, c.member_key, c.book_key, c.by, c.by)
            IN
            /\ r1.ok =>
                 LET due == r1.L.books[bi].due_date
                     T7 == now + DueDays * SecPerDay
                 IN /\ due # None
                    /\ Strptime(TheValue(due)) <= T7
                    /\ T7 < Strptime(TheValue(due)) + SecPerMin
                    /\ r1.L.history[Len(r1.L.history)].due_date = TheValue(due)
                    /\ LET r3 == Web_return_book(r1.L, T7 + 3 * SecPerDay,
                                                 c.member_key, c.book_key, c.by, c.by)
                       IN /\ r3.ok
                          /\ r3.L.history[Len(r3.L.history)].fine = 3 * FineRate
                    /\ \A days \in 0..3, secs \in {0, 30, SecPerDay - 1} :
                          WebFine(due, Strptime(TheValue(due)) + days * SecPerDay + secs)
                              = FineRate * days
                    /\ \A early \in {1, SecPerDay, DueDays * SecPerDay} :
                          WebFine(due, Strptime(TheValue(due)) - early) = 0
            /\ r2.ok =>
                 LET due == Strptime(TheValue(books[bi].due_date))
                     fine == r2.L.history[Len(r2.L.history)].fine
                 IN /\ fine >= 0
                    /\ now < due + SecPerDay => fine = 0
                    /\ \A days \in 1..(2 * DueDays) :
                          (due + days * SecPerDay <= now
                              /\ now < due + (days + 1) * SecPerDay)
                          => fine = FineRate * days
            /\ (mi # 0 /\ bi # 0 /\ ~WebReturnRefused(books[bi], members[mi])) =>
                 \A bad \in BadDueDates :
                    LET r4 == Web_return_book(
                                  [Lib EXCEPT !.books[bi].due_date = bad], now,
                                  c.member_key, c.book_key, c.by, c.by)
                    IN /\ r4.ok /\ r4.msg = "Returned"
                       /\ r4.L.history[Len(r4.L.history)].fine = 0
                       /\ ~r4.L.books[bi].is_borrowed

\* a book borrowed at clock 0 was just returned 3 days and 30 seconds past its
\* due date and the ledger records the fine of 30
C11_Witness ==
    /\ prog = "Web"
    /\ last.msg = "Returned"
    /\ Len(history) = 2
    /\ history[1].action = "borrow"
    /\ history[2].action = "return"
    /\ history[2].book_id = history[1].book_id
    /\ now = Strptime(history[1].due_date) + 3 * SecPerDay + 30
    /\ history[2].fine = 3 * FineRate

\* no member answers the reference a call gives (Web.py: the id, or the name
\* stripped and compared without case; app.py: the id)
WebNoSuchMember(key, by_name) ==
    \A i \in MemberIdx :
        IF by_name THEN Lower(members[i].name) # Lower(Strip(key))
        ELSE members[i].member_id # key
WebNoSuchBook(key, by_title) ==
    \A i \in BookIdx :
        IF by_title THEN Lower(books[i].title) # Lower(Strip(key))
        ELSE books[i].book_id # key
AppNoSuchMember(member_id) == \A i \in MemberIdx : members[i].member_id # member_id
AppNoSuchBook(title) == \A i \in BookIdx : Lower(books[i].title) # Lower(title)

\* C12: a borrow or a return whose member reference resolves to no member fails
\* with member-not-found, also when the book reference resolves to no book; one
\* whose member resolves and whose book reference resolves to no book fails with
\* book-not-found; the failure is the call's result, and books, members, history
\* and the store are as before.
C12_UnresolvedReferenceFails ==
    /\ prog = "Web" =>
         \A c \in WebCalls :
            LET r1 == Web_borrow_book(Lib, now, c.member_key, c.book_key, c.by, c.by)
                r2 == Web_return_book(Lib, now, c.member_key, c.book_key, c.by, c.by)
            IN /\ WebNoSuchMember(c.member_key, c.by) =>
                    \A r \in {r1, r2} :
                       /\ ~r.ok /\ r.msg = "Member not found."
                       /\ r.L = Lib /\ ~r.saved
               /\ (~WebNoSuchMember(c.member_key, c.by)
                     /\ WebNoSuchBook(c.book_key, c.by)) =>
                    \A r \in {r1, r2} :
                       /\ ~r.ok /\ r.msg = "Book not found."
                       /\ r.L = Lib /\ ~r.saved
    /\ prog = "app" =>
         \A member_id \in AppMemberIds, title \in AppTitleKeys :
            LET r1 == App_borrow_book(Lib, member_id, title)
                r2 == App_return_book(Lib, member_id, title)
            IN /\ AppNoSuchMember(member_id) =>
                    \A r \in {r1, r2} :
                       /\ ~r.ok /\ r.msg = "MemberNotFoundError"
                       /\ r.L = Lib /\ ~r.saved
               /\ (~AppNoSuchMember(member_id) /\ AppNoSuchBook(title)) =>
                    \A r \in {r1, r2} :
                       /\ ~r.ok /\ r.msg = "BookNotFoundError"
                       /\ r.L = Lib /\ ~r.saved

\* app.py: with a book in the catalog and a member on the roster, a call naming
\* another member has just failed with member-not-found
C12_Witness ==
    /\ prog = "app"
    /\ last.msg = "MemberNotFoundError"
    /\ ~last.ok
    /\ Len(books) > 0
    /\ Len(members) = 1

\* C13: saving a reachable state and loading what was saved into a fresh
\* library gives the same books (loan and availability fields included), the
\* same members (borrowed lists included) and, in Web.py, the same history in
\* the same order, the load returning normally; the store on disk, once
\* written, is that save, so it loads to the state in memory.
C13_SaveLoadRoundTrip ==
    /\ prog = "Web" =>
         /\ WebLoadData(WebSaveData(Lib)) = [L |-> Lib, raised |-> "none"]
         /\ disk # NoStore => disk = WebSaveData(Lib)
    /\ prog = "app" =>
         /\ AppLoadFromFile(AppSaveToFile(Lib)) = [L |-> Lib, raised |-> "none"]
         /\ disk # NoStore => disk = AppSaveToFile(Lib)

\* app.py: the store holds a member with a book out, one copy still in
C13_Witness ==
    /\ prog = "app"
    /\ disk = AppSaveToFile(Lib)
    /\ \E mi \in MemberIdx, bi \in BookIdx :
          /\ InList(books[bi].book_id, members[mi].borrowed_books)
          /\ books[bi].available_copies = 1
          /\ books[bi].total_copies = 2

\* C14: loading never raises, in load_data of Web.py and in load_from_file of
\* app.py: no start of the program ends by an exception of the load, and on a
\* missing store and on a store whose content is unparseable or of the wrong
\* shape the load returns with empty collections.
C14_LoadNeverRaises ==
    /\ ~LoadRaised
    /\ (disk = NoStore \/ disk \in BadStores) =>
          LET r == IF prog = "Web" THEN WebLoadData(disk)
                   ELSE AppLoadFromFile(disk)
          IN r.raised = "none" /\ r.L = EmptyLib

\* the steps that are a call whose write to the store failed
WriteFailed == last'.msg \in {"OSError", "DatabaseError"}

\* C15: when the write to the store fails during an add, a borrow or a return,
\* the call returns a failure result naming the persistence error to its caller
\* (it neither reports success nor leaves the engine by the exception), and
\* the mutation of the call stays applied in memory.
C15_WriteFailureSurfaced ==
    [][WriteFailed =>
         /\ last'.returned
         /\ ~last'.ok
         /\ \E r \in (IF prog = "Web" THEN WebEngineCalls(Lib, now)
                       ELSE AppEngineCalls(Lib)) :
               /\ r.saved
               /\ books' = r.L.books
               /\ members' = r.L.members
               /\ history' = r.L.history
      ]_callvars

\* a list without a repeated entry
NoRepeat(list) == \A i, j \in 1..Len(list) : list[i] = list[j] => i = j

\* C16: no member's borrowed list holds the same book id twice, in Web.py
\* (borrowed_book_ids) and in app.py (borrowed_books), books of several copies
\* included.
C16_BorrowedListHasNoRepeat ==
    /\ prog = "Web" => \A mi \in MemberIdx : NoRepeat(members[mi].borrowed_book_ids)
    /\ prog = "app" => \A mi \in MemberIdx : NoRepeat(members[mi].borrowed_books)

\* positions of the books whose title is the query up to case
TitleMatches(query) == {i \in BookIdx : Lower(books[i].title) = Lower(query)}

\* position bi is the first of the matches, or 0 when there is none
IsFirstMatch(bi, matches) ==
    IF matches = {} THEN bi = 0
    ELSE bi \in matches /\ \A i \in matches : bi <= i

\* C17: resolving a book by title gives the first book in insertion order whose
\* title equals the query without regard to case (Web.py strips the query), and
\* none when no title matches; a borrow or a return by title changes no book
\* but that first match, also when a later book has the same title, and it is
\* the first match's id that goes into or out of the member's list and (Web.py)
\* into the history.
C17_TitleResolvesToFirstMatch ==
    /\ prog = "Web" =>
         /\ \A key \in WebBookKeys \ WebBookIds :
               IsFirstMatch(find_book_by_title_ci(books, key),
                            TitleMatches(Strip(key)))
         /\ \A c \in {x \in WebCalls : x.by} :
               LET matches == TitleMatches(Strip(c.book_key))
                   bi == CHOOSE i \in matches : \A k \in matches : i <= k
                   mi == find_member_by_name_ci(members, c.member_key)
                   OnFirstMatch(r, borrowing) ==
                       r.ok =>
                         /\ r.L.books[bi] # books[bi]
                         /\ \A j \in BookIdx \ {bi} : r.L.books[j] = books[j]
                         /\ r.L.history[Len(r.L.history)].book_id = books[bi].book_id
                         /\ InList(books[bi].book_id,
                                   r.L.members[mi].borrowed_book_ids) <=> borrowing
               IN /\ OnFirstMatch(Web_borrow_book(Lib, now, c.member_key,
                                                  c.book_key, TRUE, TRUE), TRUE)
                  /\ OnFirstMatch(Web_return_book(Lib, now, c.member_key,
                                                  c.book_key, TRUE, TRUE), FALSE)
    /\ prog = "app" =>
         /\ \A title \in AppTitleKeys :
               IsFirstMatch(search_book(books, title), TitleMatches(title))
         /\ \A title \in AppTitleKeys : TitleMatches(title) # {} =>
               LET matches == TitleMatches(title)
                   bi == CHOOSE i \in matches : \A k \in matches : i <= k
                   Others(L) == [j \in BookIdx \ {bi} |-> L.books[j]]
               IN \A member_id \in AppMemberIds :
                     LET r1 == App_borrow_book(Lib, member_id, title)
                         r2 == App_return_book(Lib, member_id, title)
                         mi == get_member(members, member_id)
                     IN /\ r1.ok =>
                             /\ Others(r1.L) = Others(Lib)
                             /\ r1.L.books[bi].available_copies
                                    = books[bi].available_copies - 1
                             /\ r1.L.members[mi].borrowed_books
                                    = Append(members[mi].borrowed_books,
                                             books[bi].book_id)
                        /\ r2.ok =>
                             /\ Others(r2.L) = Others(Lib)
                             /\ r2.L.members # members =>
                                   /\ InList(books[bi].book_id,
                                             members[mi].borrowed_books)
                                   /\ r2.L.members[mi].borrowed_books
                                          = ListRemove(members[mi].borrowed_books,
                                                       books[bi].book_id)

\* app.py: two books with different ids share a title up to case and a borrow
\* has just taken a copy of the first, all copies of the second being in
C17_Witness ==
    /\ prog = "app"
    /\ Len(books) = 2
    /\ Lower(books[1].title) = Lower(books[2].title)
    /\ books[1].title # books[2].title
    /\ books[1].book_id # books[2].book_id
    /\ last.msg = "Book borrowed successfully."
    /\ books[1].available_copies = books[1].total_copies - 1
    /\ books[2].available_copies = books[2].total_copies
    /\ \E mi \in MemberIdx : members[mi].borrowed_books = <<books[1].book_id>>

\* the entries of a ledger about one book, in order
RECURSIVE EntriesOf(_, _)
EntriesOf(hist, book_id) ==
    IF hist = <<>> THEN <<>>
    ELSE LET rest == EntriesOf(SubSeq(hist, 1, Len(hist) - 1), book_id)
             e == hist[Len(hist)]
         IN  IF e.book_id = book_id THEN Append(rest, e) ELSE rest

\* C18: Web.py: every successful borrow or return is the next ledger entry, and
\* over the successful calls about one book borrows and returns alternate,
\* starting with a borrow: a successful borrow finds the book not on loan and
\* its previous successful call, if any, is a return; a successful return by a
\* member finds the book on loan to that member and its previous successful call
\* is a borrow by the same member.
C18_BorrowsAndReturnsAlternate ==
    [][LET n == Len(history)
           e == history'[n + 1]
           prev == EntriesOf(history, e.book_id)
           bi == FirstWith(books, "book_id", e.book_id)
       IN
       /\ (last'.ok /\ last'.msg \in {"borrowed", "Returned"}) <=> Len(history') = n + 1
       /\ Len(history') = n + 1 =>
            /\ SubSeq(history', 1, n) = history
            /\ e.action = (IF last'.msg = "borrowed" THEN "borrow" ELSE "return")
            /\ bi # 0
            /\ e.action = "borrow" =>
                  /\ ~books[bi].is_borrowed
                  /\ books'[bi].is_borrowed
                  /\ books'[bi].borrower_id = Some(e.member_id)
                  /\ prev # <<>> => prev[Len(prev)].action = "return"
            /\ e.action = "return" =>
                  /\ books[bi].is_borrowed
                  /\ books[bi].borrower_id = Some(e.member_id)
                  /\ ~books'[bi].is_borrowed
                  /\ prev # <<>>
                  /\ prev[Len(prev)].action = "borrow"
                  /\ prev[Len(prev)].member_id = e.member_id
      ]_callvars

\* a book was borrowed, returned by its borrower and borrowed again by the
\* other member
C18_Witness ==
    /\ prog = "Web"
    /\ Len(history) = 3
    /\ history[1].action = "borrow"
    /\ history[2].action = "return"
    /\ history[3].action = "borrow"
    /\ history[1].book_id = history[2].book_id
    /\ history[2].book_id = history[3].book_id
    /\ history[1].member_id = history[2].member_id
    /\ history[3].member_id # history[1].member_id
    /\ last.msg = "borrowed"

\* C20: Web.py: for every book, is_borrowed, borrower_id being set and due_date
\* being set hold together or not at all, and a set borrower_id is the
\* member_id of a member on the roster.
C20_LoanFieldsAgree ==
    prog = "Web" =>
        \A bi \in BookIdx :
            /\ books[bi].is_borrowed <=> books[bi].borrower_id # None
            /\ books[bi].borrower_id # None <=> books[bi].due_date # None
            /\ books[bi].borrower_id # None =>
                  \E mi \in MemberIdx :
                      members[mi].member_id = TheValue(books[bi].borrower_id)

\* a borrow has just put one book on loan to the second member of the roster,
\* with its due date; the other book is in, its loan fields clear
C20_Witness ==
    /\ prog = "Web"
    /\ last.msg = "borrowed"
    /\ \E bi, bj \in BookIdx : \E mi \in MemberIdx :
          /\ books[bi].is_borrowed
          /\ books[bi].borrower_id = Some(members[mi].member_id)
          /\ books[bi].due_date # None
          /\ ~books[bj].is_borrowed
          /\ books[bj].borrower_id = None
          /\ books[bj].due_date = None
          /\ mi = 2
          /\ members[mi].borrowed_book_ids = <<books[bi].book_id>>

\* positions at which two sequences of equal length differ
Changed(before, after) == {i \in 1..Len(before) : after[i] # before[i]}

\* the same record but for the fields in fs
SameBut(before, after, fs) ==
    /\ DOMAIN after = DOMAIN before
    /\ \A f \in DOMAIN before \ fs : after[f] = before[f]

\* Web.py: library L differs from the one in memory at most in the loan fields
\* of one book that the reference names and in the borrowed list of one member
\* that the reference names, the ledger having one more entry
WebFrame(L, c) ==
    /\ Len(L.books) = Len(books)
    /\ Len(L.members) = Len(members)
    /\ Cardinality(Changed(books, L.books)) = 1
    /\ Cardinality(Changed(members, L.members)) = 1
    /\ \A i \in Changed(books, L.books) :
          /\ ~WebNoSuchBook(c.book_key, c.by)
          /\ IF c.by THEN Lower(books[i].title) = Lower(Strip(c.book_key))
             ELSE books[i].book_id = c.book_key
          /\ SameBut(books[i], L.books[i],
                     {"is_borrowed", "borrower_id", "due_date"})
    /\ \A i \in Changed(members, L.members) :
          /\ IF c.by THEN Lower(members[i].name) = Lower(Strip(c.member_key))
             ELSE members[i].member_id = c.member_key
          /\ SameBut(members[i], L.members[i], {"borrowed_book_ids"})
    /\ Len(L.history) = Len(history) + 1
    /\ SubSeq(L.history, 1, Len(history)) = history

\* app.py: library L differs from the one in memory at most in available_copies
\* of one book of that title and in the borrowed list of the member of that id
AppFrame(L, member_id, title) ==
    /\ Len(L.books) = Len(books)
    /\ Len(L.members) = Len(members)
    /\ Cardinality(Changed(books, L.books)) <= 1
    /\ Cardinality(Changed(members, L.members)) <= 1
    /\ \A i \in Changed(books, L.books) :
          /\ Lower(books[i].title) = Lower(title)
          /\ SameBut(books[i], L.books[i], {"available_copies"})
    /\ \A i \in Changed(members, L.members) :
          /\ members[i].member_id = member_id
          /\ SameBut(members[i], L.members[i], {"borrowed_books"})
    /\ L.history = history

\* C21: a successful borrow or return changes nothing but the loan fields
\* (Web.py: is_borrowed, borrower_id, due_date; app.py: available_copies) of the
\* one book its reference names and the borrowed list of the one member its
\* reference names, and in Web.py appends one entry to the history: every other
\* book and member, the ids, names, titles, authors and total_copies and the
\* number and order of books and members are as before.
C21_BorrowReturnFrame ==
    /\ prog = "Web" =>
         \A c \in WebCalls :
            LET r1 == Web_borrow_book(Lib, now, c.member_key, c.book_key, c.by, c.by)
                r2 == Web_return_book(Lib, now, c.member_key, c.book_key, c.by, c.by)
            IN /\ r1.ok => WebFrame(r1.L, c)
               /\ r2.ok => WebFrame(r2.L, c)
    /\ prog = "app" =>
         \A member_id \in AppMemberIds, title \in AppTitleKeys :
            LET r1 == App_borrow_book(Lib, member_id, title)
                r2 == App_return_book(Lib, member_id, title)
            IN /\ r1.ok => AppFrame(r1.L, member_id, title) /\ r1.L # Lib
               /\ r2.ok => AppFrame(r2.L, member_id, title)

\* app.py: with two books of different titles and two members, a borrow has
\* just taken a copy of the second book for the second member; the first book
\* and the first member, who holds a copy of it, are as they were
C21_Witness ==
    /\ prog = "app"
    /\ last.msg = "Book borrowed successfully."
    /\ Len(books) = 2 /\ Len(members) = 2
    /\ Lower(books[1].title) # Lower(books[2].title)
    /\ books[1].book_id # books[2].book_id
    /\ members[1].borrowed_books = <<books[1].book_id>>
    /\ members[2].borrowed_books = <<books[2].book_id>>
    /\ books[1].available_copies = books[1].total_copies - 1
    /\ books[2].available_copies = books[2].total_copies - 1
    /\ disk = AppSaveToFile(Lib)

\* C9: Web.py: a successful borrow_book or return_book makes the history one
\* entry longer; a failed one, add_book and add_member leave its length alone.
C9_HistoryGrowsByOnePerSuccess ==
    [][prog = "Web" =>
         Len(history') = Len(history)
             + (IF last'.ok /\ last'.msg \in {"borrowed", "Returned"} THEN 1 ELSE 0)
      ]_callvars

\* two entries are in the ledger and a refused return has left them alone
C9_Witness ==
    /\ prog = "Web"
    /\ Len(history) = 2
    /\ last.msg = "This member does not hold that book."

\* C10: Web.py: the ledger is append-only: in every step the old history is a
\* prefix of the new one, a new entry is the call just made, stamped with the
\* clock at the call, stamps never decrease along the ledger, and showing the
\* newest-first view leaves the stored history as it was.
C10_HistoryAppendOnly ==
    [][prog = "Web" =>
         /\ Len(history) <= Len(history')
         /\ SubSeq(history', 1, Len(history)) = history
         /\ Len(history') > Len(history) =>
               /\ history'[Len(history')].timestamp = Now(now)
               /\ history'[Len(history')].action
                     = (IF last'.msg = "borrowed" THEN "borrow" ELSE "return")
         /\ \A i, j \in 1..Len(history') :
               i <= j => history'[i].timestamp <= history'[j].timestamp
         /\ last'.msg = "history shown" =>
               /\ history' = history
               /\ last'.lines = ui_show_history(history)
               /\ \A i \in 1..Len(history) :
                     last'.lines[i] = history[Len(history) + 1 - i]
      ]_callvars

\* the view of a ledger of two entries was just shown
C10_Witness ==
    /\ prog = "Web"
    /\ Len(history) >= 2
    /\ last.msg = "history shown"
    /\ history[1].action = "borrow"

====
